---- MODULE Spec2Model ----
(***************************************************************************)
(* Order-tracking utility (src/app.py): the pending and fulfilled order    *)
(* ledgers, the two JSON files that persist them, and the menu loop.       *)
(*                                                                         *)
(* Text (console input, file content) is a sequence of one-character       *)
(* strings, so that upper-casing, stripping, integer parsing and JSON      *)
(* encoding/decoding are computed character by character.                  *)
(***************************************************************************)
EXTENDS Integers, Sequences, FiniteSets, TLC

VARIABLES
    orders,          \* main(): the pending list (app.py:111)
    output_orders,   \* main(): the fulfilled list (app.py:112)
    disk,            \* the working directory: file name -> [exists, text]
    pc,              \* "MenuShown" | "Exit"
    started,         \* what the startup load returned: [orders, output_orders]
    added,           \* number of add_order calls that appended an order
    last,            \* the menu action that led here: its inputs, the state
                     \* it started from, and what it returned and wrote
    scenario         \* how far the run has followed the walk-through of the
                     \* specification (add A1, report, fulfil 1), and what the
                     \* report printed

vars == <<orders, output_orders, disk, pc, started, added, last, scenario>>

----------------------------------------------------------------------------
(* Bounds of the model *)

\* No add is explored that would bring the number of orders held in memory
\* (pending plus fulfilled) above MaxOrders.
MaxOrders == 2

----------------------------------------------------------------------------
(* Text helpers: Python str methods and int() *)

Whitespace == {" ", "\t"}

LowerLetters == <<"a","b","c","d","e","f","g","h","i","j","k","l","m",
                  "n","o","p","q","r","s","t","u","v","w","x","y","z">>
UpperLetters == <<"A","B","C","D","E","F","G","H","I","J","K","L","M",
                  "N","O","P","Q","R","S","T","U","V","W","X","Y","Z">>

DigitChars == <<"0","1","2","3","4","5","6","7","8","9">>
Digits == {DigitChars[i] : i \in DOMAIN DigitChars}
DigitVal(c) == (CHOOSE i \in DOMAIN DigitChars : DigitChars[i] = c) - 1

\* str.upper() on one character: a lower-case letter maps to its capital,
\* every other character of the modelled alphabet is left alone.
UpperChar(c) ==
    IF \E i \in DOMAIN LowerLetters : LowerLetters[i] = c
    THEN UpperLetters[CHOOSE i \in DOMAIN LowerLetters : LowerLetters[i] = c]
    ELSE c

\* str.upper()
Upper(s) == [i \in DOMAIN s |-> UpperChar(s[i])]

RECURSIVE LStrip(_)
LStrip(s) == IF s # <<>> /\ Head(s) \in Whitespace THEN LStrip(Tail(s)) ELSE s

RECURSIVE RStrip(_)
RStrip(s) ==
    IF s # <<>> /\ s[Len(s)] \in Whitespace
    THEN RStrip(SubSeq(s, 1, Len(s) - 1))
    ELSE s

\* str.lstrip() where str.strip() was meant
Strip_left_only(s) == LStrip(s)

\* str.strip()
Strip(s) == RStrip(LStrip(s))

RECURSIVE DigitsValue(_)
DigitsValue(ds) ==
    IF ds = <<>> THEN 0
    ELSE 10 * DigitsValue(SubSeq(ds, 1, Len(ds) - 1)) + DigitVal(ds[Len(ds)])

IsDigit(c) == c \in Digits

\* int(text): surrounding whitespace is ignored, one optional sign, then
\* decimal digits, single underscores allowed between digits.  ok = FALSE
\* stands for ValueError.
ParseInt(text) ==
    LET t      == Strip(text)
        signed == t # <<>> /\ t[1] \in {"+", "-"}
        body   == IF signed THEN Tail(t) ELSE t
        wellFormed ==
            /\ body # <<>>
            /\ \A i \in DOMAIN body : body[i] \in Digits \cup {"_"}
            /\ body[1] # "_"
            /\ body[Len(body)] # "_"
            /\ \A i \in 1..(Len(body) - 1) : ~(body[i] = "_" /\ body[i + 1] = "_")
        mag    == DigitsValue(SelectSeq(body, IsDigit))
    IN  IF wellFormed
        THEN [ok |-> TRUE, val |-> IF t[1] = "-" THEN 0 - mag ELSE mag]
        ELSE [ok |-> FALSE, val |-> 0]

RECURSIVE NatToDec(_)
NatToDec(n) ==
    IF n < 10 THEN <<DigitChars[n + 1]>>
    ELSE NatToDec(n \div 10) \o <<DigitChars[(n % 10) + 1]>>

\* repr of an int, as json.dump writes it
IntToDec(n) == IF n < 0 THEN <<"-">> \o NatToDec(0 - n) ELSE NatToDec(n)

----------------------------------------------------------------------------
(* The JSON documents: json.dump(orders, file, indent=4, ensure_ascii=False) *)
(* and json.load(file), restricted to arrays, objects, strings and integers. *)

INPUT_FILE == "orders.json"
OUTPUT_FILE == "output_orders.json"
FileNames == {INPUT_FILE, OUTPUT_FILE}

\* indent=4 in save_orders
Indent == 4

\* The dictionary keys of the program, as TLA+ field names and as text.
KeyTable ==
    << <<"order_id", <<"o","r","d","e","r","_","i","d">> >>,
       <<"customer", <<"c","u","s","t","o","m","e","r">> >>,
       <<"items",    <<"i","t","e","m","s">> >>,
       <<"name",     <<"n","a","m","e">> >>,
       <<"price",    <<"p","r","i","c","e">> >>,
       <<"quantity", <<"q","u","a","n","t","i","t","y">> >> >>

KeyText(k) == KeyTable[CHOOSE i \in DOMAIN KeyTable : KeyTable[i][1] = k][2]

\* A key that is none of the program's keys is kept under the name "?".
KeyName(text) ==
    IF \E i \in DOMAIN KeyTable : KeyTable[i][2] = text
    THEN KeyTable[CHOOSE i \in DOMAIN KeyTable : KeyTable[i][2] = text][1]
    ELSE "?"

\* An encoder that forgets to escape the backslash
EscapeChar_no_backslash(c) ==
    CASE c = "\"" -> <<"\\", "\"">>
      [] c = "\t" -> <<"\\", "t">>
      [] c = "\n" -> <<"\\", "n">>
      [] OTHER    -> <<c>>

\* json.encoder with ensure_ascii=False escapes the quote, the backslash
\* and control characters; everything else is written as it is.
EscapeChar(c) ==
    CASE c = "\"" -> <<"\\", "\"">>
      [] c = "\\" -> <<"\\", "\\">>
      [] c = "\t" -> <<"\\", "t">>
      [] c = "\n" -> <<"\\", "n">>
      [] OTHER    -> <<c>>

RECURSIVE EscapeText(_)
EscapeText(s) ==
    IF s = <<>> THEN <<>> ELSE EscapeChar(Head(s)) \o EscapeText(Tail(s))

EncodeString(s) == <<"\"">> \o EscapeText(s) \o <<"\"">>

NewlineIndent(level) == <<"\n">> \o [i \in 1..(Indent * level) |-> " "]

RECURSIVE JoinTexts(_, _)
JoinTexts(texts, sep) ==
    IF texts = <<>> THEN <<>>
    ELSE IF Len(texts) = 1 THEN texts[1]
    ELSE texts[1] \o sep \o JoinTexts(Tail(texts), sep)

\* A list whose elements are already encoded, written at nesting `level`.
EncodeList(texts, level) ==
    IF texts = <<>> THEN <<"[", "]">>
    ELSE <<"[">> \o NewlineIndent(level + 1)
         \o JoinTexts(texts, <<",">> \o NewlineIndent(level + 1))
         \o NewlineIndent(level) \o <<"]">>

\* A non-empty dict given as <<key, encoded value>> pairs in insertion order.
EncodeDict(members, level) ==
    <<"{">> \o NewlineIndent(level + 1)
    \o JoinTexts([i \in DOMAIN members |->
                    EncodeString(KeyText(members[i][1])) \o <<":", " ">> \o members[i][2]],
                 <<",">> \o NewlineIndent(level + 1))
    \o NewlineIndent(level) \o <<"}">>

\* {"name": ..., "price": ..., "quantity": ...}   (app.py:74)
EncodeItem(item, level) ==
    EncodeDict(<< <<"name", EncodeString(item.name)>>,
                  <<"price", IntToDec(item.price)>>,
                  <<"quantity", IntToDec(item.quantity)>> >>, level)

\* {"order_id": ..., "customer": ..., "items": [...]}   (app.py:82)
EncodeOrder(order, level) ==
    EncodeDict(<< <<"order_id", EncodeString(order.order_id)>>,
                  <<"customer", EncodeString(order.customer)>>,
                  <<"items", EncodeList([i \in DOMAIN order.items |->
                                           EncodeItem(order.items[i], level + 2)],
                                        level + 1)>> >>, level)

\* json.dump of a list of orders
JsonDump(list) == EncodeList([i \in DOMAIN list |-> EncodeOrder(list[i], 1)], 0)

ParseFail == [ok |-> FALSE, val |-> <<>>, pos |-> 0]

\* The character at position p, "" past the end of the text.
At(t, p) == IF p \in 1..Len(t) THEN t[p] ELSE ""

JsonWhitespace == {" ", "\t", "\n", "\r"}

RECURSIVE SkipWs(_, _)
SkipWs(t, p) == IF At(t, p) \in JsonWhitespace THEN SkipWs(t, p + 1) ELSE p

\* What follows a backslash inside a JSON string (\b, \uXXXX are outside
\* the modelled alphabet).
Unescape(c) ==
    CASE c = "\"" -> "\""
      [] c = "\\" -> "\\"
      [] c = "/"  -> "/"
      [] c = "t"  -> "\t"
      [] c = "n"  -> "\n"
      [] c = "r"  -> "\r"
      [] c = "f"  -> "\f"
      [] OTHER    -> ""

\* py_scanstring from just after the opening quote (strict: a literal control
\* character ends the parse with an error).
RECURSIVE ScanString(_, _, _)
ScanString(t, p, acc) ==
    LET c == At(t, p) IN
    IF c = "" THEN ParseFail
    ELSE IF c = "\"" THEN [ok |-> TRUE, val |-> acc, pos |-> p + 1]
    ELSE IF c = "\\"
         THEN IF Unescape(At(t, p + 1)) = "" THEN ParseFail
              ELSE ScanString(t, p + 2, Append(acc, Unescape(At(t, p + 1))))
    ELSE IF c \in {"\t", "\n", "\r", "\f"} THEN ParseFail
    ELSE ScanString(t, p + 1, Append(acc, c))

RECURSIVE DigitRunEnd(_, _)
DigitRunEnd(t, p) == IF At(t, p) \in Digits THEN DigitRunEnd(t, p + 1) ELSE p

\* NUMBER_RE: -?(0|[1-9][0-9]*) ; a fraction or an exponent would make a
\* float, which no order holds.
ScanNumber(t, p) ==
    LET q    == IF At(t, p) = "-" THEN p + 1 ELSE p
        stop == IF At(t, q) = "0" THEN q + 1 ELSE DigitRunEnd(t, q)
        mag  == DigitsValue(SubSeq(t, q, stop - 1))
    IN  IF stop = q \/ At(t, stop) \in {".", "e", "E"} THEN ParseFail
        ELSE [ok |-> TRUE, val |-> IF q > p THEN 0 - mag ELSE mag, pos |-> stop]

RECURSIVE ParseValue(_, _), ParseElements(_, _, _), ParseMembers(_, _, _)

\* JSONArray, from the first element on
ParseElements(t, p, acc) ==
    LET v == ParseValue(t, p) IN
    IF ~v.ok THEN ParseFail
    ELSE LET q == SkipWs(t, v.pos) IN
         IF At(t, q) = "," THEN ParseElements(t, SkipWs(t, q + 1), Append(acc, v.val))
         ELSE IF At(t, q) = "]"
              THEN [ok |-> TRUE, val |-> Append(acc, v.val), pos |-> q + 1]
         ELSE ParseFail

\* JSONObject, from the first key on; a repeated key keeps its last value
ParseMembers(t, p, acc) ==
    IF At(t, p) # "\"" THEN ParseFail
    ELSE LET k == ScanString(t, p + 1, <<>>) IN
         IF ~k.ok THEN ParseFail
         ELSE LET c == SkipWs(t, k.pos) IN
              IF At(t, c) # ":" THEN ParseFail
              ELSE LET v == ParseValue(t, SkipWs(t, c + 1)) IN
                   IF ~v.ok THEN ParseFail
                   ELSE LET obj == (KeyName(k.val) :> v.val) @@ acc
                            q   == SkipWs(t, v.pos)
                        IN  IF At(t, q) = "," THEN ParseMembers(t, SkipWs(t, q + 1), obj)
                            ELSE IF At(t, q) = "}"
                                 THEN [ok |-> TRUE, val |-> obj, pos |-> q + 1]
                            ELSE ParseFail

\* scan_once at the first character of a value
ParseValue(t, p) ==
    LET c == At(t, p) IN
    IF c = "\"" THEN ScanString(t, p + 1, <<>>)
    ELSE IF c = "["
         THEN LET q == SkipWs(t, p + 1) IN
              IF At(t, q) = "]" THEN [ok |-> TRUE, val |-> <<>>, pos |-> q + 1]
              ELSE ParseElements(t, q, <<>>)
    ELSE IF c = "{"
         THEN LET q == SkipWs(t, p + 1) IN
              IF At(t, q) = "}" THEN [ok |-> TRUE, val |-> <<>>, pos |-> q + 1]
              ELSE ParseMembers(t, q, <<>>)
    ELSE IF c = "-" \/ c \in Digits THEN ScanNumber(t, p)
    ELSE ParseFail

\* json.load: one value, nothing but whitespace around it.  ok = FALSE stands
\* for JSONDecodeError.
JsonLoad(t) ==
    LET v == ParseValue(t, SkipWs(t, 1)) IN
    IF v.ok /\ SkipWs(t, v.pos) = Len(t) + 1
    THEN [ok |-> TRUE, val |-> v.val]
    ELSE [ok |-> FALSE, val |-> <<>>]

NoFile == [exists |-> FALSE, text |-> <<>>]

\* load_data without the `except FileNotFoundError` clause: the error of
\* open() reaches the caller
load_data_missing_file_raises(d, filename) ==
    IF ~d[filename].exists THEN [ok |-> FALSE, val |-> <<>>]
    ELSE JsonLoad(d[filename].text)

\* load_data (app.py:8-14): [] when the file does not exist; ok = FALSE when
\* json.load raises, which load_data does not catch.
load_data(d, filename) ==
    IF ~d[filename].exists THEN [ok |-> TRUE, val |-> <<>>]
    ELSE JsonLoad(d[filename].text)

\* save_orders (app.py:16-19): the file is created or overwritten.
save_orders(d, filename, list) ==
    [d EXCEPT ![filename] = [exists |-> TRUE, text |-> JsonDump(list)]]

----------------------------------------------------------------------------
(* The ledger: add_order, process_order, calculate_order_total *)

\* The messages the functions return or print, by what they say; those that
\* quote an order id carry it.
MsgDuplicate(id)  == [msg |-> "error: order id already exists", id |-> id]
MsgNoItems        == [msg |-> "at least one item is needed", id |-> <<>>]
MsgAdded(id)      == [msg |-> "order added", id |-> id]
MsgNoPending      == [msg |-> "no pending orders", id |-> <<>>]
MsgCancelled      == [msg |-> "fulfilment cancelled", id |-> <<>>]
MsgInvalidNumber  == [msg |-> "error: enter a valid number", id |-> <<>>]
MsgFulfilled(id)  == [msg |-> "order fulfilled", id |-> id]
MsgNegativePrice  == [msg |-> "error: price cannot be negative", id |-> <<>>]
MsgBadQuantity    == [msg |-> "error: quantity must be a positive integer", id |-> <<>>]
MsgNotInteger     == [msg |-> "error: price or quantity must be an integer", id |-> <<>>]
MsgNoOrders       == [msg |-> "no orders", id |-> <<>>]
MsgInvalidOption  == [msg |-> "enter a valid option (1-4)", id |-> <<>>]

\* Python's None, and a value that is not None, as a list of at most one.
None == <<>>
Some(x) == <<x>>

\* calculate_order_total (app.py:21-26)
RECURSIVE SumSubtotals(_)
SumSubtotals(items) ==
    IF items = <<>> THEN 0
    ELSE SumSubtotals(SubSeq(items, 1, Len(items) - 1))
         + items[Len(items)].price * items[Len(items)].quantity

\* calculate_order_total with `+` where `*` was meant
calculate_order_total_adds_quantity(order) ==
    SumSubtotals([i \in DOMAIN order.items |->
                    [price |-> order.items[i].price + order.items[i].quantity,
                     quantity |-> 1]])

\* calculate_order_total with `return total` inside the loop
calculate_order_total_returns_in_loop(order) ==
    IF order.items = <<>> THEN 0
    ELSE order.items[1].price * order.items[1].quantity

calculate_order_total(order) == SumSubtotals(order.items)

\* The item loop with `quantity < 0` where `quantity <= 0` was meant
RECURSIVE ItemLoop_accepts_zero_quantity(_, _, _)
ItemLoop_accepts_zero_quantity(entries, items, printed) ==
    IF entries = <<>> THEN [items |-> items, printed |-> printed]
    ELSE LET e     == Head(entries)
             rest  == Tail(entries)
             price == ParseInt(e.price)
             quantity == ParseInt(e.quantity)
         IN  IF ~price.ok
             THEN ItemLoop_accepts_zero_quantity(rest, items, Append(printed, MsgNotInteger))
             ELSE IF price.val < 0
                  THEN ItemLoop_accepts_zero_quantity(rest, items,
                                                      Append(printed, MsgNegativePrice))
             ELSE IF ~quantity.ok
                  THEN ItemLoop_accepts_zero_quantity(rest, items,
                                                      Append(printed, MsgNotInteger))
             ELSE IF quantity.val < 0
                  THEN ItemLoop_accepts_zero_quantity(rest, items,
                                                      Append(printed, MsgBadQuantity))
             ELSE ItemLoop_accepts_zero_quantity(rest,
                           Append(items, [name |-> e.name, price |-> price.val,
                                          quantity |-> quantity.val]),
                           printed)

\* The while loop of add_order (app.py:61-77).  `entries` is what the user
\* types: one [name, price, quantity] per non-empty item name, then the empty
\* name that ends the loop.  The quantity is asked for only after a price
\* that is an integer >= 0.
RECURSIVE ItemLoop(_, _, _)
ItemLoop(entries, items, printed) ==
    IF entries = <<>> THEN [items |-> items, printed |-> printed]
    ELSE LET e     == Head(entries)
             rest  == Tail(entries)
             price == ParseInt(e.price)
             quantity == ParseInt(e.quantity)
         IN  IF ~price.ok THEN ItemLoop(rest, items, Append(printed, MsgNotInteger))
             ELSE IF price.val < 0
                  THEN ItemLoop(rest, items, Append(printed, MsgNegativePrice))
             ELSE IF ~quantity.ok
                  THEN ItemLoop(rest, items, Append(printed, MsgNotInteger))
             ELSE IF quantity.val <= 0
                  THEN ItemLoop(rest, items, Append(printed, MsgBadQuantity))
             ELSE ItemLoop(rest,
                           Append(items, [name |-> e.name, price |-> price.val,
                                          quantity |-> quantity.val]),
                           printed)

\* any(order["order_id"] == order_id for order in orders)   (app.py:55)
IdExists(list, order_id) == \E i \in DOMAIN list : list[i].order_id = order_id

\* add_order comparing the id as typed, not upper-cased, with the stored ids
add_order_exact_case(list, id_typed, customer, entries) ==
    LET order_id == Upper(id_typed)
        loop     == ItemLoop(entries, <<>>, <<>>)
    IN  IF IdExists(list, id_typed)
        THEN [orders |-> list, result |-> MsgDuplicate(order_id), printed |-> <<>>,
              asked |-> FALSE]
        ELSE IF loop.items = <<>>
             THEN [orders |-> list, result |-> MsgNoItems, printed |-> loop.printed,
                   asked |-> TRUE]
        ELSE [orders |-> Append(list, [order_id |-> order_id, customer |-> customer,
                                       items |-> loop.items]),
              result |-> MsgAdded(order_id), printed |-> loop.printed, asked |-> TRUE]

\* add_order storing the id as typed
add_order_keeps_typed_id(list, id_typed, customer, entries) ==
    LET order_id == Upper(id_typed)
        loop     == ItemLoop(entries, <<>>, <<>>)
    IN  IF IdExists(list, order_id)
        THEN [orders |-> list, result |-> MsgDuplicate(order_id), printed |-> <<>>,
              asked |-> FALSE]
        ELSE IF loop.items = <<>>
             THEN [orders |-> list, result |-> MsgNoItems, printed |-> loop.printed,
                   asked |-> TRUE]
        ELSE [orders |-> Append(list, [order_id |-> id_typed, customer |-> customer,
                                       items |-> loop.items]),
              result |-> MsgAdded(order_id), printed |-> loop.printed, asked |-> TRUE]

\* add_order without the `if not items` test
add_order_no_item_check(list, id_typed, customer, entries) ==
    LET order_id == Upper(id_typed)
        loop     == ItemLoop(entries, <<>>, <<>>)
    IN  IF IdExists(list, order_id)
        THEN [orders |-> list, result |-> MsgDuplicate(order_id), printed |-> <<>>,
              asked |-> FALSE]
        ELSE [orders |-> Append(list, [order_id |-> order_id, customer |-> customer,
                                       items |-> loop.items]),
              result |-> MsgAdded(order_id), printed |-> loop.printed, asked |-> TRUE]

\* add_order looking for the id among the fulfilled orders as well
add_order_checks_both(list, id_typed, customer, entries) ==
    LET order_id == Upper(id_typed)
        loop     == ItemLoop(entries, <<>>, <<>>)
    IN  IF IdExists(list \o output_orders, order_id)
        THEN [orders |-> list, result |-> MsgDuplicate(order_id), printed |-> <<>>,
              asked |-> FALSE]
        ELSE IF loop.items = <<>>
             THEN [orders |-> list, result |-> MsgNoItems, printed |-> loop.printed,
                   asked |-> TRUE]
        ELSE [orders |-> Append(list, [order_id |-> order_id, customer |-> customer,
                                       items |-> loop.items]),
              result |-> MsgAdded(order_id), printed |-> loop.printed, asked |-> TRUE]

\* add_order (app.py:52-83): the list after the call, the returned message,
\* what the item loop printed, and whether the customer and the items were
\* asked for (they are only when the id is new).
add_order(list, id_typed, customer, entries) ==
    LET order_id == Upper(id_typed)
        loop     == ItemLoop(entries, <<>>, <<>>)
    IN  IF IdExists(list, order_id)
        THEN [orders |-> list, result |-> MsgDuplicate(order_id), printed |-> <<>>,
              asked |-> FALSE]
        ELSE IF loop.items = <<>>
             THEN [orders |-> list, result |-> MsgNoItems, printed |-> loop.printed,
                   asked |-> TRUE]
        ELSE [orders |-> Append(list, [order_id |-> order_id, customer |-> customer,
                                       items |-> loop.items]),
              result |-> MsgAdded(order_id), printed |-> loop.printed, asked |-> TRUE]

\* list.pop(idx + 1): one element too far
Pop_next(list, idx) == SubSeq(list, 1, idx + 1) \o SubSeq(list, idx + 3, Len(list))

\* list.pop(idx) for 0 <= idx < len(list): the list without its element idx
Pop(list, idx) == SubSeq(list, 1, idx) \o SubSeq(list, idx + 2, Len(list))

\* process_order without the `if not orders` test: the prompt is always shown
process_order_no_empty_check(list, typed) ==
    LET n == ParseInt(typed)
        idx == n.val - 1
    IN  IF typed = <<>>
        THEN [orders |-> list, result |-> MsgCancelled, completed_order |-> None,
              asked |-> TRUE]
        ELSE IF ~n.ok
        THEN [orders |-> list, result |-> MsgInvalidNumber, completed_order |-> None,
              asked |-> TRUE]
        ELSE IF 0 <= idx /\ idx < Len(list)
        THEN [orders |-> Pop(list, idx),
              result |-> MsgFulfilled(list[idx + 1].order_id),
              completed_order |-> Some(list[idx + 1]), asked |-> TRUE]
        ELSE [orders |-> list, result |-> MsgInvalidNumber, completed_order |-> None,
              asked |-> TRUE]

\* process_order with `idx < len(orders)` alone: a negative idx counts from the
\* end of the list, as list.pop does
process_order_no_lower_bound(list, typed) ==
    LET n == ParseInt(typed)
        idx == IF n.val - 1 < 0 THEN Len(list) + n.val - 1 ELSE n.val - 1
    IN  IF list = <<>>
        THEN [orders |-> list, result |-> MsgNoPending, completed_order |-> None,
              asked |-> FALSE]
        ELSE IF typed = <<>>
        THEN [orders |-> list, result |-> MsgCancelled, completed_order |-> None,
              asked |-> TRUE]
        ELSE IF ~n.ok
        THEN [orders |-> list, result |-> MsgInvalidNumber, completed_order |-> None,
              asked |-> TRUE]
        ELSE IF 0 <= idx /\ idx < Len(list)
        THEN [orders |-> Pop(list, idx),
              result |-> MsgFulfilled(list[idx + 1].order_id),
              completed_order |-> Some(list[idx + 1]), asked |-> TRUE]
        ELSE [orders |-> list, result |-> MsgInvalidNumber, completed_order |-> None,
              asked |-> TRUE]

\* process_order (app.py:85-107): the list after the call, the returned
\* message and order (None or the order popped), and whether the selection
\* prompt was reached.
process_order(list, typed) ==
    LET n == ParseInt(typed)
        idx == n.val - 1
    IN  IF list = <<>>
        THEN [orders |-> list, result |-> MsgNoPending, completed_order |-> None,
              asked |-> FALSE]
        ELSE IF typed = <<>>
        THEN [orders |-> list, result |-> MsgCancelled, completed_order |-> None,
              asked |-> TRUE]
        ELSE IF ~n.ok
        THEN [orders |-> list, result |-> MsgInvalidNumber, completed_order |-> None,
              asked |-> TRUE]
        ELSE IF 0 <= idx /\ idx < Len(list)
        THEN [orders |-> Pop(list, idx),
              result |-> MsgFulfilled(list[idx + 1].order_id),
              completed_order |-> Some(list[idx + 1]), asked |-> TRUE]
        ELSE [orders |-> list, result |-> MsgInvalidNumber, completed_order |-> None,
              asked |-> TRUE]

\* print_order_report (app.py:28-50), by the totals it prints: one per order
\* of the list, or the one of the single order.
print_order_report(data, single) ==
    IF single THEN <<calculate_order_total(data)>>
    ELSE [i \in DOMAIN data |-> calculate_order_total(data[i])]

----------------------------------------------------------------------------
(* What the user types *)

Text_a1 == <<"a", "1">>
Text_A1 == <<"A", "1">>
Text_b2 == <<"b", "2">>
Text_C3 == <<"C", "3">>
Text_Alice == <<"A", "l", "i", "c", "e">>
Text_Bob == <<"B", "o", "b">>
Text_Tea == <<"T", "e", "a">>
Text_Pie == <<"P", "i", "e">>

IdInputs == {Text_a1, Text_A1, Text_b2}
CustomerInputs == {Text_Alice}

\* Item entries: two that are accepted, and one for each way of being refused.
EntryTea      == [name |-> Text_Tea, price |-> <<"5", "0">>, quantity |-> <<"2">>]
EntryPie      == [name |-> Text_Pie, price |-> <<"0">>, quantity |-> <<" ", "1">>]
EntryNegative == [name |-> Text_Tea, price |-> <<"-", "1">>, quantity |-> <<"1">>]
EntryZeroQty  == [name |-> Text_Tea, price |-> <<"5">>, quantity |-> <<"0">>]
EntryBadPrice == [name |-> Text_Tea, price |-> <<"x">>, quantity |-> <<"1">>]
EntryBadQty   == [name |-> Text_Tea, price |-> <<"5">>, quantity |-> <<"1", ".", "5">>]

\* What is typed into the item loop before the closing empty name.
EntryScripts ==
    { <<>>,
      <<EntryTea>>, <<EntryTea, EntryPie>>,
      <<EntryNegative>>, <<EntryZeroQty>>, <<EntryBadPrice>>, <<EntryBadQty>>,
      <<EntryNegative, EntryTea>>, <<EntryTea, EntryZeroQty>>,
      <<EntryBadPrice, EntryTea, EntryPie>>, <<EntryTea, EntryBadQty, EntryPie>> }

MenuInputs ==
    { <<>>, <<" ">>, <<"1">>, <<"2">>, <<"2", " ">>, <<"3">>, <<"4">>,
      <<" ", "4", " ">>, <<"5">>, <<"x">>, <<"1", "2">> }

\* Selections at the fulfil prompt with n orders listed: every number from -1
\* to n + 1, and texts that are no plain number.
SelectionInputs(n) ==
    {IntToDec(k) : k \in (-1)..(n + 1)}
    \cup { <<>>, <<" ">>, <<"x">>, <<"1", ".", "0">>, <<" ", "2", " ">> }

----------------------------------------------------------------------------
(* The files found at startup *)

OrderA1 == [order_id |-> Text_A1, customer |-> Text_Alice,
            items |-> <<[name |-> Text_Tea, price |-> 50, quantity |-> 2]>>]
OrderB2 == [order_id |-> Upper(Text_b2), customer |-> Text_Alice,
            items |-> <<[name |-> Text_Tea, price |-> 50, quantity |-> 2],
                        [name |-> Text_Pie, price |-> 0, quantity |-> 1]>>]
OrderC3 == [order_id |-> Text_C3, customer |-> Text_Bob,
            items |-> <<[name |-> Text_Pie, price |-> 0, quantity |-> 1]>>]
\* An order no add_order call could have made: lower-case id, negative price,
\* zero quantity.
OrderEdited == [order_id |-> Text_a1, customer |-> Text_Bob,
                items |-> <<[name |-> Text_Tea, price |-> -5, quantity |-> 0]>>]

NoFiles == [f \in FileNames |-> NoFile]

\* The working directory at startup: no file yet; the files that an earlier
\* run left with three pending orders; files edited by hand.
InitialDisks ==
    { NoFiles,
      save_orders(NoFiles, INPUT_FILE, <<OrderA1, OrderB2, OrderC3>>),
      save_orders(save_orders(NoFiles, INPUT_FILE, <<OrderEdited>>), OUTPUT_FILE, <<>>),
      [NoFiles EXCEPT ![OUTPUT_FILE] = [exists |-> TRUE, text |-> <<"[">>]] }

----------------------------------------------------------------------------
(* The menu loop: main (app.py:109-145) *)

MsgNothing == [msg |-> "", id |-> <<>>]

\* The walk-through of the specification: from no files, add order A1 for
\* Alice with the single item Tea 50 x 2, then report, then fulfil number 1.
\* A run that does anything else has left it.
ScenarioStart == [stage |-> "start", reported |-> <<>>]
ScenarioLeft  == [stage |-> "left", reported |-> <<>>]

ScenarioAfter(sc, action) ==
    IF /\ sc.stage = "start" /\ action.op = "add"
       /\ action.order_id = Text_A1 /\ action.customer = Text_Alice
       /\ action.entries = <<EntryTea>>
    THEN [stage |-> "added", reported |-> <<>>]
    ELSE IF sc.stage = "added" /\ action.op = "report"
    THEN [stage |-> "reported", reported |-> action.reported]
    ELSE IF /\ sc.stage = "reported" /\ action.op = "fulfil"
            /\ action.selection = <<"1">>
    THEN [stage |-> "fulfilled", reported |-> sc.reported]
    ELSE ScenarioLeft

\* The record of a menu action that took no input beyond the choice and
\* changed nothing; each action overrides what it did.
Quiet(op, choice) ==
    [op |-> op, choice |-> choice,
     order_id |-> <<>>, customer |-> <<>>, entries |-> <<>>, selection |-> <<>>,
     asked |-> FALSE,
     orders0 |-> orders, output0 |-> output_orders,
     result |-> MsgNothing, completed_order |-> None, printed |-> <<>>,
     written |-> <<>>, reported |-> <<>>]

\* app.py:111-112: both files are loaded before the first menu.  An error
\* that load_data lets through ends the program before the loop starts
\* (pc = "Failed"; a list that was never assigned is shown empty).
Init ==
    /\ disk \in InitialDisks
    /\ orders = load_data(disk, INPUT_FILE).val
    /\ output_orders = IF load_data(disk, INPUT_FILE).ok
                       THEN load_data(disk, OUTPUT_FILE).val ELSE <<>>
    /\ pc = IF load_data(disk, INPUT_FILE).ok /\ load_data(disk, OUTPUT_FILE).ok
            THEN "MenuShown" ELSE "Failed"
    /\ started = [orders |-> orders, output_orders |-> output_orders]
    /\ added = 0
    /\ last = Quiet("start", <<>>)
    /\ scenario = IF disk = NoFiles THEN ScenarioStart ELSE ScenarioLeft

\* choice "1" (app.py:125-128): add_order, print, save the pending list.
MenuAdd(choice, id_typed, customer, entries) ==
    LET r == add_order(orders, id_typed, customer, entries) IN
    /\ pc = "MenuShown"
    /\ Strip(choice) = <<"1">>
    /\ Len(r.orders) + Len(output_orders) <= MaxOrders \/ r.orders = orders
    /\ orders' = r.orders
    /\ disk' = save_orders(disk, INPUT_FILE, r.orders)
    /\ added' = IF r.orders = orders THEN added ELSE added + 1
    /\ last' = [Quiet("add", choice) EXCEPT
                  !.order_id = id_typed,
                  !.asked = r.asked,
                  !.customer = IF r.asked THEN customer ELSE <<>>,
                  !.entries = IF r.asked THEN entries ELSE <<>>,
                  !.result = r.result,
                  !.printed = r.printed,
                  !.written = <<INPUT_FILE>>]
    /\ scenario' = ScenarioAfter(scenario, last')
    /\ UNCHANGED <<output_orders, pc, started>>

\* choice "2" (app.py:129-133)
MenuReport(choice) ==
    /\ pc = "MenuShown"
    /\ Strip(choice) = <<"2">>
    /\ last' = IF orders # <<>>
               THEN [Quiet("report", choice) EXCEPT
                       !.reported = print_order_report(orders, FALSE)]
               ELSE [Quiet("report", choice) EXCEPT !.result = MsgNoOrders]
    /\ scenario' = ScenarioAfter(scenario, last')
    /\ UNCHANGED <<orders, output_orders, disk, pc, started, added>>

\* choice "3" saving the pending list into both files
MenuFulfil_saves_pending_twice(choice, typed) ==
    LET r == process_order(orders, typed) IN
    /\ pc = "MenuShown"
    /\ Strip(choice) = <<"3">>
    /\ orders' = r.orders
    /\ IF r.completed_order # None
       THEN /\ output_orders' = Append(output_orders, r.completed_order[1])
            /\ disk' = save_orders(save_orders(disk, INPUT_FILE, r.orders),
                                   OUTPUT_FILE, r.orders)
            /\ last' = [Quiet("fulfil", choice) EXCEPT
                          !.selection = typed, !.asked = r.asked,
                          !.result = r.result,
                          !.completed_order = r.completed_order,
                          !.written = <<INPUT_FILE, OUTPUT_FILE>>,
                          !.reported = print_order_report(r.completed_order[1], TRUE)]
       ELSE /\ output_orders' = output_orders
            /\ disk' = disk
            /\ last' = [Quiet("fulfil", choice) EXCEPT
                          !.selection = typed, !.asked = r.asked,
                          !.result = r.result]
    /\ scenario' = ScenarioAfter(scenario, last')
    /\ UNCHANGED <<pc, started, added>>

\* choice "3" with output_orders.insert(0, completed_order)
MenuFulfil_inserts_first(choice, typed) ==
    LET r == process_order(orders, typed) IN
    /\ pc = "MenuShown"
    /\ Strip(choice) = <<"3">>
    /\ orders' = r.orders
    /\ IF r.completed_order # None
       THEN /\ output_orders' = <<r.completed_order[1]>> \o output_orders
            /\ disk' = save_orders(save_orders(disk, INPUT_FILE, r.orders),
                                   OUTPUT_FILE, output_orders')
            /\ last' = [Quiet("fulfil", choice) EXCEPT
                          !.selection = typed, !.asked = r.asked,
                          !.result = r.result,
                          !.completed_order = r.completed_order,
                          !.written = <<INPUT_FILE, OUTPUT_FILE>>,
                          !.reported = print_order_report(r.completed_order[1], TRUE)]
       ELSE /\ output_orders' = output_orders
            /\ disk' = disk
            /\ last' = [Quiet("fulfil", choice) EXCEPT
                          !.selection = typed, !.asked = r.asked,
                          !.result = r.result]
    /\ scenario' = ScenarioAfter(scenario, last')
    /\ UNCHANGED <<pc, started, added>>

\* choice "3" without the append to output_orders
MenuFulfil_forgets_order(choice, typed) ==
    LET r == process_order(orders, typed) IN
    /\ pc = "MenuShown"
    /\ Strip(choice) = <<"3">>
    /\ orders' = r.orders
    /\ IF r.completed_order # None
       THEN /\ output_orders' = output_orders
            /\ disk' = save_orders(save_orders(disk, INPUT_FILE, r.orders),
                                   OUTPUT_FILE, output_orders')
            /\ last' = [Quiet("fulfil", choice) EXCEPT
                          !.selection = typed, !.asked = r.asked,
                          !.result = r.result,
                          !.completed_order = r.completed_order,
                          !.written = <<INPUT_FILE, OUTPUT_FILE>>,
                          !.reported = print_order_report(r.completed_order[1], TRUE)]
       ELSE /\ output_orders' = output_orders
            /\ disk' = disk
            /\ last' = [Quiet("fulfil", choice) EXCEPT
                          !.selection = typed, !.asked = r.asked,
                          !.result = r.result]
    /\ scenario' = ScenarioAfter(scenario, last')
    /\ UNCHANGED <<pc, started, added>>

\* choice "3" (app.py:134-141): process_order; when it returns an order,
\* append it to the fulfilled list, save both lists, print the order.
MenuFulfil(choice, typed) ==
    LET r == process_order(orders, typed) IN
    /\ pc = "MenuShown"
    /\ Strip(choice) = <<"3">>
    /\ orders' = r.orders
    /\ IF r.completed_order # None
       THEN /\ output_orders' = Append(output_orders, r.completed_order[1])
            /\ disk' = save_orders(save_orders(disk, INPUT_FILE, r.orders),
                                   OUTPUT_FILE, output_orders')
            /\ last' = [Quiet("fulfil", choice) EXCEPT
                          !.selection = typed, !.asked = r.asked,
                          !.result = r.result,
                          !.completed_order = r.completed_order,
                          !.written = <<INPUT_FILE, OUTPUT_FILE>>,
                          !.reported = print_order_report(r.completed_order[1], TRUE)]
       ELSE /\ output_orders' = output_orders
            /\ disk' = disk
            /\ last' = [Quiet("fulfil", choice) EXCEPT
                          !.selection = typed, !.asked = r.asked,
                          !.result = r.result]
    /\ scenario' = ScenarioAfter(scenario, last')
    /\ UNCHANGED <<pc, started, added>>

\* choice "" or "4" (app.py:123-124, 142-143): leave the loop.
MenuExit(choice) ==
    /\ pc = "MenuShown"
    /\ Strip(choice) \in {<<>>, <<"4">>}
    /\ pc' = "Exit"
    /\ last' = Quiet("exit", choice)
    /\ scenario' = ScenarioAfter(scenario, last')
    /\ UNCHANGED <<orders, output_orders, disk, started, added>>

\* any other choice (app.py:144-145)
MenuInvalid(choice) ==
    /\ pc = "MenuShown"
    /\ Strip(choice) \notin {<<>>, <<"1">>, <<"2">>, <<"3">>, <<"4">>}
    /\ last' = [Quiet("invalid", choice) EXCEPT !.result = MsgInvalidOption]
    /\ scenario' = ScenarioAfter(scenario, last')
    /\ UNCHANGED <<orders, output_orders, disk, pc, started, added>>

Next ==
    \/ \E c \in MenuInputs, id \in IdInputs, cu \in CustomerInputs, es \in EntryScripts :
          MenuAdd(c, id, cu, es)
    \/ \E c \in MenuInputs : MenuReport(c)
    \/ \E c \in MenuInputs :
          \E typed \in (IF orders = <<>> THEN {<<>>} ELSE SelectionInputs(Len(orders))) :
             MenuFulfil(c, typed)
    \/ \E c \in MenuInputs : MenuExit(c)
    \/ \E c \in MenuInputs : MenuInvalid(c)

Spec == Init /\ [][Next]_vars

----------------------------------------------------------------------------
(* The store on its own: save_orders and load_data applied to arbitrary     *)
(* lists of orders, among them orders that only a file edited by hand could *)
(* hold (empty strings, quotes, backslashes, tabs, negative and large       *)
(* numbers, no items).                                                      *)

\* The longest list of orders handed to save_orders.
MaxStoreLen == 2

Text_Quoted == <<"a", "\"", "\\", "\t", "b", "/">>
Text_BackslashN == <<"\\", "n", " ", "{", "1", "}" >>

OrderOdd == [order_id |-> <<>>, customer |-> Text_Quoted, items |-> <<>>]
OrderBig == [order_id |-> Text_BackslashN, customer |-> <<>>,
             items |-> <<[name |-> Text_Quoted, price |-> 1000000, quantity |-> 10],
                         [name |-> <<>>, price |-> -105, quantity |-> 907]>>]

StoreOrders == {OrderA1, OrderB2, OrderEdited, OrderOdd, OrderBig}

StoreLists == UNION {[1..n -> StoreOrders] : n \in 0..MaxStoreLen}

InitStore ==
    /\ orders \in StoreLists
    /\ output_orders = <<>>
    /\ disk = NoFiles
    /\ pc = "Store"
    /\ started = [orders |-> <<>>, output_orders |-> <<>>]
    /\ added = 0
    /\ last = [op |-> "start", filename |-> "", returned |-> None]
    /\ scenario = ScenarioLeft

\* save_orders(filename, orders)
StoreSave(filename) ==
    /\ pc = "Store"
    /\ disk' = save_orders(disk, filename, orders)
    /\ last' = [op |-> "save", filename |-> filename, returned |-> None]
    /\ UNCHANGED <<orders, output_orders, pc, started, added, scenario>>

\* load_data(filename)
StoreLoad(filename) ==
    /\ pc = "Store"
    /\ last' = [op |-> "load", filename |-> filename,
                returned |-> Some(load_data(disk, filename))]
    /\ UNCHANGED <<orders, output_orders, disk, pc, started, added, scenario>>

NextStore ==
    \/ \E f \in FileNames : StoreSave(f)
    \/ \E f \in FileNames : StoreLoad(f)

SpecStore == InitStore /\ [][NextStore]_vars

----------------------------------------------------------------------------
(* calculate_order_total on its own, applied to one order with any items.   *)

\* The longest item list handed to calculate_order_total.
MaxItems == 2

TotalPrices == {-5, 0, 5, 10}
TotalQuantities == {1, 2, 3}
TotalItems ==
    {[name |-> Text_Tea, price |-> p, quantity |-> q] :
        p \in TotalPrices, q \in TotalQuantities}
TotalItemLists == UNION {[1..n -> TotalItems] : n \in 0..MaxItems}

InitTotal ==
    /\ orders \in {<<[order_id |-> Text_A1, customer |-> Text_Alice, items |-> its]>> :
                      its \in TotalItemLists}
    /\ output_orders = <<>>
    /\ disk = NoFiles
    /\ pc = "Total"
    /\ started = [orders |-> <<>>, output_orders |-> <<>>]
    /\ added = 0
    /\ last = [op |-> "start", reported |-> <<>>]
    /\ scenario = ScenarioLeft

\* calculate_order_total(order)
TotalOfOrder ==
    /\ pc = "Total"
    /\ last' = [op |-> "total", reported |-> <<calculate_order_total(orders[1])>>]
    /\ UNCHANGED <<orders, output_orders, disk, pc, started, added, scenario>>

\* print_order_report(orders): the total it prints for each order
TotalsOfReport ==
    /\ pc = "Total"
    /\ last' = [op |-> "report", reported |-> print_order_report(orders, FALSE)]
    /\ UNCHANGED <<orders, output_orders, disk, pc, started, added, scenario>>

NextTotal == TotalOfOrder \/ TotalsOfReport

SpecTotal == InitTotal /\ [][NextTotal]_vars

----------------------------------------------------------------------------
(* A stop in the middle of choice "3" (app.py:134-141): the process ends    *)
(* after the order was moved in memory and somewhere along the two saves.   *)

\* Where the program can stop once process_order has returned an order.
StopPoints ==
    { "stopped before saves", "stopped in first save", "stopped between saves",
      "stopped in second save", "stopped after saves" }

\* How much of its text a save that was cut short has written.
StopCuts == {"nothing", "one character", "half", "all but one character"}

CutLength(text, cut) ==
    CASE cut = "nothing"       -> 0
      [] cut = "one character" -> 1
      [] cut = "half"          -> Len(text) \div 2
      [] OTHER                 -> Len(text) - 1

\* save_orders cut short (app.py:18-19): open(filename, 'w') has emptied the
\* file and only the first part of the text has reached it.
save_orders_stopped(d, filename, list, cut) ==
    [d EXCEPT ![filename] =
        [exists |-> TRUE,
         text |-> SubSeq(JsonDump(list), 1, CutLength(JsonDump(list), cut))]]

\* the two saves in the other order: output_orders.json first
StopDisk_fulfilled_first(d, pending, fulfilled, point, cut) ==
    CASE point = "stopped before saves" -> d
      [] point = "stopped in first save" ->
            save_orders_stopped(d, OUTPUT_FILE, fulfilled, cut)
      [] point = "stopped between saves" -> save_orders(d, OUTPUT_FILE, fulfilled)
      [] point = "stopped in second save" ->
            save_orders_stopped(save_orders(d, OUTPUT_FILE, fulfilled),
                                INPUT_FILE, pending, cut)
      [] point = "stopped after saves" ->
            save_orders(save_orders(d, OUTPUT_FILE, fulfilled), INPUT_FILE, pending)

\* The files when the program stops at `point` (app.py:139-140): the pending
\* list is saved first, the fulfilled list second.
StopDisk(d, pending, fulfilled, point, cut) ==
    CASE point = "stopped before saves" -> d
      [] point = "stopped in first save" ->
            save_orders_stopped(d, INPUT_FILE, pending, cut)
      [] point = "stopped between saves" -> save_orders(d, INPUT_FILE, pending)
      [] point = "stopped in second save" ->
            save_orders_stopped(save_orders(d, INPUT_FILE, pending),
                                OUTPUT_FILE, fulfilled, cut)
      [] point = "stopped after saves" ->
            save_orders(save_orders(d, INPUT_FILE, pending), OUTPUT_FILE, fulfilled)

\* The lists found at startup: any pending list over two orders, equal
\* orders included, and a fulfilled list of at most one of them.
CrashPending ==
    UNION { [1..n -> {OrderA1, OrderB2}] : n \in 0..MaxStoreLen }

CrashFulfilled == { <<>>, <<OrderA1>>, <<OrderB2>> }

InitCrash ==
    /\ orders \in CrashPending
    /\ output_orders \in CrashFulfilled
    /\ disk \in { save_orders(save_orders(NoFiles, INPUT_FILE, orders),
                              OUTPUT_FILE, output_orders) }
                \cup (IF output_orders = <<>>
                      THEN {save_orders(NoFiles, INPUT_FILE, orders)} ELSE {})
    /\ pc = "MenuShown"
    /\ started = [orders |-> orders, output_orders |-> output_orders]
    /\ added = 0
    /\ last = Quiet("start", <<>>)
    /\ scenario = ScenarioLeft

\* choice "3" returning an order, and the program stopping at `point`
MenuFulfilStopped(choice, typed, point, cut) ==
    LET r == process_order(orders, typed) IN
    /\ pc = "MenuShown"
    /\ Strip(choice) = <<"3">>
    /\ r.completed_order # None
    /\ point \in {"stopped in first save", "stopped in second save"} \/ cut = "nothing"
    /\ orders' = r.orders
    /\ output_orders' = Append(output_orders, r.completed_order[1])
    /\ disk' = StopDisk(disk, r.orders, output_orders', point, cut)
    /\ pc' = point
    /\ last' = [Quiet("fulfil", choice) EXCEPT
                  !.selection = typed, !.asked = r.asked,
                  !.result = r.result,
                  !.completed_order = r.completed_order,
                  !.written =
                     CASE point \in {"stopped before saves", "stopped in first save"}
                             -> <<>>
                       [] point = "stopped after saves" -> <<INPUT_FILE, OUTPUT_FILE>>
                       [] OTHER -> <<INPUT_FILE>>]
    /\ scenario' = ScenarioAfter(scenario, last')
    /\ UNCHANGED <<started, added>>

\* The menu choice typed in the runs with a stop.
CrashChoices == { <<"3">> }

NextCrash ==
    \/ \E c \in CrashChoices :
          \E typed \in (IF orders = <<>> THEN {<<>>} ELSE SelectionInputs(Len(orders))) :
             MenuFulfil(c, typed)
    \/ \E c \in CrashChoices, typed \in SelectionInputs(Len(orders)), point \in StopPoints :
          \E cut \in StopCuts : MenuFulfilStopped(c, typed, point, cut)

SpecCrash == InitCrash /\ [][NextCrash]_vars

----------------------------------------------------------------------------
(* Vocabulary of the properties, stated without the program's own           *)
(* conversions: what the typed texts mean.                                  *)

\* Two texts that differ at most in the case of their letters.
EqualIgnoringCase(a, b) ==
    /\ Len(a) = Len(b)
    /\ \A i \in DOMAIN a :
          \/ a[i] = b[i]
          \/ \E j \in DOMAIN LowerLetters :
                {a[i], b[i]} = {LowerLetters[j], UpperLetters[j]}

NoLowerCase(s) ==
    \A i \in DOMAIN s : \A j \in DOMAIN LowerLetters : s[i] # LowerLetters[j]

\* The item an entry stands for when its price is an integer >= 0 and its
\* quantity an integer >= 1; None for the entries that are refused.
EntryItem(e) ==
    CASE e = EntryTea -> Some([name |-> Text_Tea, price |-> 50, quantity |-> 2])
      [] e = EntryPie -> Some([name |-> Text_Pie, price |-> 0, quantity |-> 1])
      [] OTHER        -> None

RECURSIVE ValidItems(_)
ValidItems(entries) ==
    IF entries = <<>> THEN <<>>
    ELSE EntryItem(Head(entries)) \o ValidItems(Tail(entries))

\* The selections that are cancelled or refused when n orders are listed.
EmptySelection == <<>>
RefusedSelections(n) ==
    { <<" ">>, <<"x">>, <<"1", ".", "0">>, <<"-", "1">>, <<"0">>, IntToDec(n + 1) }

\* The list `before` without its k-th element (k counted from 1).
WithoutKth(before, k) ==
    [i \in 1..(Len(before) - 1) |-> IF i < k THEN before[i] ELSE before[i + 1]]

\* A menu choice that is blank, or a single "4" with blanks around it.
BlankOrFour(choice) ==
    /\ \A i \in DOMAIN choice : choice[i] \in {" ", "\t", "4"}
    /\ Cardinality({i \in DOMAIN choice : choice[i] = "4"}) <= 1

ItemsValid(order) ==
    /\ order.items # <<>>
    /\ \A i \in DOMAIN order.items :
          order.items[i].price >= 0 /\ order.items[i].quantity >= 1

----------------------------------------------------------------------------
(* Properties *)

\* C1: an add whose id, upper-cased, is the id of a pending order returns the
\* duplicate-id message and leaves the pending list as it was; for a pending
\* list whose ids are all upper-case (entered through add_order) this covers
\* every typed id that equals a pending id up to letter case.
C1_DuplicateIdRejected ==
    last.op = "add" =>
       /\ IdExists(last.orders0, Upper(last.order_id)) =>
             /\ last.result = MsgDuplicate(Upper(last.order_id))
             /\ orders = last.orders0
       /\ ( /\ \A i \in DOMAIN last.orders0 : NoLowerCase(last.orders0[i].order_id)
            /\ \E i \in DOMAIN last.orders0 :
                  EqualIgnoringCase(last.order_id, last.orders0[i].order_id) )
          => /\ last.result.msg = "error: order id already exists"
             /\ orders = last.orders0

C1_Witness ==
    /\ last.op = "add"
    /\ last.order_id = Text_a1
    /\ \E i \in DOMAIN last.orders0 : last.orders0[i].order_id = Text_A1
    /\ last.result = MsgDuplicate(Text_A1)
    /\ orders = last.orders0

\* C2: with n >= 1 pending orders and selection k in 1..n, the fulfil action
\* removes exactly the k-th pending order, keeps the others in their order,
\* and appends the removed order at the end of the fulfilled list.
C2_FulfilMovesKth ==
    last.op = "fulfil" =>
       \A k \in 1..Len(last.orders0) :
          last.selection = IntToDec(k) =>
             /\ orders = WithoutKth(last.orders0, k)
             /\ output_orders = Append(last.output0, last.orders0[k])
             /\ last.completed_order = Some(last.orders0[k])

C2_Witness ==
    /\ last.op = "fulfil"
    /\ Len(last.orders0) = 3
    /\ last.selection = <<"2">>
    /\ orders = <<last.orders0[1], last.orders0[3]>>
    /\ output_orders = <<last.orders0[2]>>

\* C3: with no pending order the fulfil action returns the no-orders message
\* and no order, shows no selection prompt, changes neither list and writes
\* no file.
C3_FulfilNothingPending ==
    (last.op = "fulfil" /\ last.orders0 = <<>>) =>
       /\ last.result = MsgNoPending
       /\ last.completed_order = None
       /\ ~last.asked
       /\ orders = <<>>
       /\ output_orders = last.output0
       /\ last.written = <<>>

C3_Witness ==
    /\ last.op = "fulfil"
    /\ last.orders0 = <<>>
    /\ last.result = MsgNoPending
    /\ output_orders # <<>>

\* C4: with n >= 1 pending orders, an empty selection is answered by the
\* cancel message and a non-numeric or out-of-range one (0, negative, n + 1)
\* by the invalid-number message; no order is returned and both lists stay
\* as they were.
C4_InvalidSelectionRefused ==
    (last.op = "fulfil" /\ last.orders0 # <<>>) =>
       /\ last.selection = EmptySelection =>
             /\ last.result = MsgCancelled
             /\ last.completed_order = None
             /\ orders = last.orders0 /\ output_orders = last.output0
       /\ last.selection \in RefusedSelections(Len(last.orders0)) =>
             /\ last.result = MsgInvalidNumber
             /\ last.completed_order = None
             /\ orders = last.orders0 /\ output_orders = last.output0

C4_Witness ==
    /\ last.op = "fulfil"
    /\ Len(last.orders0) = 3
    /\ last.selection = <<"0">>
    /\ last.result = MsgInvalidNumber
    /\ orders = last.orders0

\* C5: an add whose id is not pending and whose entries hold at least one
\* valid item appends exactly one order at the end of the pending list: the
\* upper-cased id, the customer as typed, the valid items in the order typed;
\* the orders already pending keep their places.
C5_AddAppendsOrder ==
    ( /\ last.op = "add"
      /\ ~\E i \in DOMAIN last.orders0 :
            /\ NoLowerCase(last.orders0[i].order_id)
            /\ EqualIgnoringCase(last.orders0[i].order_id, last.order_id)
      /\ ValidItems(last.entries) # <<>> )
    => /\ Len(orders) = Len(last.orders0) + 1
       /\ SubSeq(orders, 1, Len(last.orders0)) = last.orders0
       /\ NoLowerCase(orders[Len(orders)].order_id)
       /\ EqualIgnoringCase(orders[Len(orders)].order_id, last.order_id)
       /\ orders[Len(orders)].customer = last.customer
       /\ orders[Len(orders)].items = ValidItems(last.entries)
       /\ last.result = MsgAdded(orders[Len(orders)].order_id)

C5_Witness ==
    /\ last.op = "add"
    /\ last.order_id = Text_b2
    /\ last.entries = <<EntryTea, EntryBadQty, EntryPie>>
    /\ last.orders0 # <<>>
    /\ orders = Append(last.orders0, OrderB2)

\* C6: started with both lists empty, every order in either list has at
\* least one item and only items of price >= 0 and quantity >= 1; a refused
\* entry is not appended and does not end the order: the items accepted
\* before and after it are kept, and each refusal prints one message.
C6_ItemsValid ==
    /\ (started.orders = <<>> /\ started.output_orders = <<>>) =>
          /\ \A i \in DOMAIN orders : ItemsValid(orders[i])
          /\ \A i \in DOMAIN output_orders : ItemsValid(output_orders[i])
    /\ (last.op = "add" /\ last.asked /\ ValidItems(last.entries) # <<>>) =>
          /\ Len(orders) = Len(last.orders0) + 1
          /\ orders[Len(orders)].items = ValidItems(last.entries)
          /\ Len(last.printed) + Len(ValidItems(last.entries)) = Len(last.entries)

C6_Witness ==
    /\ started.orders = <<>> /\ started.output_orders = <<>>
    /\ last.op = "add"
    /\ last.entries = <<EntryTea, EntryZeroQty>>
    /\ last.printed = <<MsgBadQuantity>>
    /\ Len(orders) = Len(last.orders0) + 1
    /\ orders[Len(orders)].items = <<[name |-> Text_Tea, price |-> 50, quantity |-> 2]>>

\* C7: when the item loop ends with no accepted item, add_order returns the
\* empty-order message and the pending list is unchanged; no add appends an
\* order with an empty item list.
C7_EmptyOrderRefused ==
    last.op = "add" =>
       /\ (last.asked /\ ValidItems(last.entries) = <<>>) =>
             /\ last.result = MsgNoItems
             /\ orders = last.orders0
       /\ Len(orders) > Len(last.orders0) => orders[Len(orders)].items # <<>>

C7_Witness ==
    /\ last.op = "add"
    /\ last.asked
    /\ last.entries = <<EntryNegative>>
    /\ last.result = MsgNoItems
    /\ last.orders0 # <<>>
    /\ orders = last.orders0

\* C8: whenever the menu is shown, load_data would read the pending list from
\* orders.json and the fulfilled list from output_orders.json; choice "1"
\* writes orders.json, a choice "3" that returns an order writes both files.
C8_FilesMatchMemory ==
    pc = "MenuShown" =>
       /\ load_data(disk, INPUT_FILE) = [ok |-> TRUE, val |-> orders]
       /\ load_data(disk, OUTPUT_FILE) = [ok |-> TRUE, val |-> output_orders]
       /\ last.op = "add" => last.written = <<INPUT_FILE>>
       /\ (last.op = "fulfil" /\ last.completed_order # None) =>
             last.written = <<INPUT_FILE, OUTPUT_FILE>>

C8_Witness ==
    /\ pc = "MenuShown"
    /\ last.op = "fulfil"
    /\ last.completed_order # None
    /\ orders # <<>>
    /\ Len(output_orders) = 2
    /\ disk[OUTPUT_FILE].exists
    /\ load_data(disk, OUTPUT_FILE).val = output_orders

\* C9: every step starts at the menu; it ends in Exit exactly when the choice
\* is blank or "4" (with blanks around it), and at the menu again after any
\* other choice, whatever the add or fulfil attempt returned.
C9_ExitOnlyOnBlankOrFour ==
    [][ /\ pc = "MenuShown"
        /\ last'.choice \in MenuInputs
        /\ IF BlankOrFour(last'.choice) THEN pc' = "Exit" ELSE pc' = "MenuShown" ]_vars

C9_Witness ==
    /\ pc = "Exit"
    /\ last.op = "exit"
    /\ last.choice = <<" ", "4", " ">>

\* C10: for every list of orders, load_data of a file written by save_orders
\* returns a list equal to the one saved: same length, same orders in the
\* same places, same fields, same items.
C10_SaveLoadRoundTrip ==
    (last.op = "load" /\ disk[last.filename].exists) =>
       /\ last.returned # None
       /\ last.returned[1].ok
       /\ Len(last.returned[1].val) = Len(orders)
       /\ \A i \in DOMAIN orders :
             /\ last.returned[1].val[i].order_id = orders[i].order_id
             /\ last.returned[1].val[i].customer = orders[i].customer
             /\ last.returned[1].val[i].items = orders[i].items
             /\ last.returned[1].val[i] = orders[i]

C10_Witness ==
    /\ last.op = "load"
    /\ disk[last.filename].exists
    /\ orders = <<OrderBig, OrderOdd>>
    /\ last.returned = Some([ok |-> TRUE, val |-> <<OrderBig, OrderOdd>>])

\* C11: load_data of a file that does not exist returns the empty list and
\* raises nothing; started with neither file, the program reaches the menu
\* with both lists empty.
C11_MissingFileLoadsEmpty ==
    /\ \A f \in FileNames :
          ~disk[f].exists => load_data(disk, f) = [ok |-> TRUE, val |-> <<>>]
    /\ (last.op = "start" /\ \A f \in FileNames : ~disk[f].exists) =>
          /\ pc = "MenuShown"
          /\ orders = <<>>
          /\ output_orders = <<>>
          /\ started = [orders |-> <<>>, output_orders |-> <<>>]

C11_Witness ==
    /\ last.op = "start"
    /\ ~disk[INPUT_FILE].exists /\ ~disk[OUTPUT_FILE].exists
    /\ pc = "MenuShown"
    /\ orders = <<>> /\ output_orders = <<>>

\* The sum of price * quantity over the items at the positions in S.
RECURSIVE SubtotalsOver(_, _)
SubtotalsOver(items, S) ==
    IF S = {} THEN 0
    ELSE LET i == CHOOSE j \in S : TRUE IN
         items[i].price * items[i].quantity + SubtotalsOver(items, S \ {i})

\* C12: calculate_order_total returns the sum over the items of price times
\* quantity, 0 for no items, and 35 for the items (10, 2), (5, 3).
C12_TotalIsSumOfSubtotals ==
    last.op \in {"total", "report"} =>
       /\ last.reported = <<SubtotalsOver(orders[1].items, DOMAIN orders[1].items)>>
       /\ orders[1].items = <<>> => last.reported = <<0>>
       /\ ( /\ Len(orders[1].items) = 2
            /\ orders[1].items[1].price = 10 /\ orders[1].items[1].quantity = 2
            /\ orders[1].items[2].price = 5 /\ orders[1].items[2].quantity = 3 )
          => last.reported = <<35>>

C12_Witness ==
    /\ last.op = "total"
    /\ orders[1].items = <<[name |-> Text_Tea, price |-> 10, quantity |-> 2],
                           [name |-> Text_Tea, price |-> 5, quantity |-> 3]>>
    /\ last.reported = <<35>>

\* C13: from no files, after add A1 / Alice / (Tea, 50, 2), report, fulfil 1:
\* the report showed the total 100, no order is pending, the fulfilled list
\* is exactly the A1 order, orders.json holds the empty list and
\* output_orders.json holds exactly the A1 order.
C13_WalkThrough ==
    /\ scenario.stage = "reported" =>
          /\ scenario.reported = <<100>>
          /\ Len(orders) = 1 /\ output_orders = <<>>
    /\ scenario.stage = "fulfilled" =>
          /\ scenario.reported = <<100>>
          /\ orders = <<>>
          /\ output_orders =
                <<[order_id |-> <<"A", "1">>, customer |-> <<"A", "l", "i", "c", "e">>,
                   items |-> <<[name |-> <<"T", "e", "a">>, price |-> 50,
                                quantity |-> 2]>>]>>
          /\ disk[INPUT_FILE] = [exists |-> TRUE, text |-> <<"[", "]">>]
          /\ disk[OUTPUT_FILE].exists
          /\ load_data(disk, OUTPUT_FILE) = [ok |-> TRUE, val |-> output_orders]

C13_Witness ==
    /\ scenario.stage = "fulfilled"
    /\ scenario.reported = <<100>>
    /\ orders = <<>>
    /\ output_orders = <<OrderA1>>
    /\ load_data(disk, INPUT_FILE).val = <<>>
    /\ load_data(disk, OUTPUT_FILE).val = <<OrderA1>>

\* No two orders of the list have the same order_id.
DistinctIds(list) ==
    \A i, j \in DOMAIN list : i # j => list[i].order_id # list[j].order_id

\* C14: when the pending orders loaded at startup have pairwise distinct
\* ids, the pending orders have pairwise distinct ids after any sequence of
\* menu actions.
C14_PendingIdsDistinct ==
    DistinctIds(started.orders) => DistinctIds(orders)

C14_Witness ==
    /\ last.op = "add"
    /\ last.result.msg = "order added"
    /\ Len(orders) = 2
    /\ orders[1].order_id # orders[2].order_id
    /\ DistinctIds(started.orders)

IsPrefix(a, b) == Len(a) <= Len(b) /\ SubSeq(b, 1, Len(a)) = a

\* C15: every step leaves the fulfilled list a prefix of the new fulfilled
\* list, and a step that changes it is a fulfil action that returned an order
\* and made the list exactly one longer.
C15_FulfilledAppendOnly ==
    [][ /\ IsPrefix(output_orders, output_orders')
        /\ output_orders' # output_orders =>
              /\ last'.op = "fulfil"
              /\ last'.completed_order # None
              /\ Len(output_orders') = Len(output_orders) + 1
        /\ (last'.op = "fulfil" /\ last'.result.msg = "order fulfilled") =>
              Len(output_orders') = Len(output_orders) + 1 ]_vars

C15_Witness ==
    /\ last.op = "fulfil"
    /\ last.completed_order # None
    /\ last.output0 # <<>>
    /\ output_orders = Append(last.output0, last.completed_order[1])
    /\ output_orders[1] # output_orders[2]

\* How many times x occurs in the list.
Count(list, x) == Cardinality({i \in DOMAIN list : list[i] = x})

\* C18: the pending and the fulfilled list together hold as many orders as
\* were loaded at startup plus the successful adds; a successful add puts one
\* new order into the two lists taken together, and every other action leaves
\* each order there exactly as many times as before.
C18_OrdersConserved ==
    LET now    == orders \o output_orders
        before == last.orders0 \o last.output0
        grown  == last.op = "add" /\ last.result.msg = "order added"
    IN  /\ Len(orders) + Len(output_orders) =
              Len(started.orders) + Len(started.output_orders) + added
        /\ pc # "Failed" =>
              /\ Len(now) = Len(before) + (IF grown THEN 1 ELSE 0)
              /\ \A k \in DOMAIN now :
                    Count(now, now[k]) =
                       Count(before, now[k])
                       + (IF grown /\ now[k] = orders[Len(orders)] THEN 1 ELSE 0)
              /\ \A k \in DOMAIN before : Count(now, before[k]) >= Count(before, before[k])

C18_Witness ==
    /\ added = 2
    /\ Len(orders) = 1 /\ Len(output_orders) = 1
    /\ last.op = "fulfil"
    /\ last.completed_order = Some(output_orders[1])

\* C19: an add whose id is the id of a fulfilled order and of no pending
\* order is not refused as a duplicate, and with at least one valid item it
\* appends the order; the fulfilled list can hold two orders with one id.
C19_DuplicateCheckPendingOnly ==
    ( /\ last.op = "add"
      /\ \E i \in DOMAIN last.output0 :
            EqualIgnoringCase(last.order_id, last.output0[i].order_id)
      /\ \A i \in DOMAIN last.orders0 :
            ~EqualIgnoringCase(last.order_id, last.orders0[i].order_id) )
    => /\ last.asked
       /\ last.result.msg # "error: order id already exists"
       /\ ValidItems(last.entries) # <<>> =>
             /\ last.result.msg = "order added"
             /\ Len(orders) = Len(last.orders0) + 1
             /\ EqualIgnoringCase(orders[Len(orders)].order_id, last.order_id)

C19_Witness ==
    /\ last.op = "fulfil"
    /\ last.completed_order # None
    /\ added = 2
    /\ Len(output_orders) = 2
    /\ output_orders[1].order_id = output_orders[2].order_id

\* The orders a file holds for the program that loads it; none when the
\* file is missing or is not a complete JSON text.
FileOrders(d, filename) ==
    IF d[filename].exists /\ load_data(d, filename).ok
    THEN load_data(d, filename).val ELSE <<>>

\* On the files d the order x is still in orders.json as often as it was
\* pending before the fulfilment.
StillPending(d, x, pending0) ==
    Count(FileOrders(d, INPUT_FILE), x) = Count(pending0, x)

\* On the files d the order x has been appended to output_orders.json.
AppendedToFulfilled(d, x, fulfilled0) ==
    /\ d[OUTPUT_FILE].exists
    /\ load_data(d, OUTPUT_FILE) = [ok |-> TRUE, val |-> Append(fulfilled0, x)]

\* C16: when the program stops after the pending file was saved and before
\* the fulfilled file was, orders.json holds the pending list without the
\* fulfilled order and output_orders.json holds what it held before: the
\* order is one time less in orders.json and was not appended to
\* output_orders.json, and an order that occurred once is in neither file,
\* while the fulfilled list in memory ends with it.
C16_StopBetweenSavesLosesOrder ==
    pc = "stopped between saves" =>
       LET x == last.completed_order[1] IN
       /\ last.completed_order # None
       /\ output_orders = Append(last.output0, x)
       /\ \E k \in DOMAIN last.orders0 :
             /\ last.orders0[k] = x
             /\ FileOrders(disk, INPUT_FILE) = WithoutKth(last.orders0, k)
       /\ Count(FileOrders(disk, INPUT_FILE), x) = Count(last.orders0, x) - 1
       /\ FileOrders(disk, OUTPUT_FILE) = last.output0
       /\ ~AppendedToFulfilled(disk, x, last.output0)
       /\ Count(last.orders0 \o last.output0, x) = 1 =>
             /\ Count(FileOrders(disk, INPUT_FILE), x) = 0
             /\ Count(FileOrders(disk, OUTPUT_FILE), x) = 0

C16_Witness ==
    /\ pc = "stopped between saves"
    /\ last.orders0 = <<OrderA1, OrderB2>>
    /\ last.output0 = <<>>
    /\ last.completed_order = Some(OrderB2)
    /\ FileOrders(disk, INPUT_FILE) = <<OrderA1>>
    /\ FileOrders(disk, OUTPUT_FILE) = <<>>
    /\ output_orders = <<OrderB2>>

\* C17 as claimed: a fulfilment has a point at which a stop leaves the order
\* appended to output_orders.json while it is still in orders.json.
C17_StopCanLeaveOrderInBothFiles ==
    [][ (pc = "MenuShown" /\ pc' \in StopPoints) =>
           \E point \in StopPoints, cut \in StopCuts :
              LET d == StopDisk(disk, orders', output_orders', point, cut)
                  x == last'.completed_order[1]
              IN  /\ StillPending(d, x, orders)
                  /\ AppendedToFulfilled(d, x, output_orders) ]_vars

\* C17: no stop during a fulfilment leaves the order appended to
\* output_orders.json while it is still in orders.json.  Before the first
\* save the order is still in orders.json and not appended; from the start of
\* the first save on it is no longer in orders.json as often as before; it is
\* appended to output_orders.json only once both saves are complete.
C17_StopNeverLeavesOrderInBothFiles ==
    pc \in StopPoints =>
       LET x        == last.completed_order[1]
           pending  == StillPending(disk, x, last.orders0)
           appended == AppendedToFulfilled(disk, x, last.output0)
       IN  /\ last.completed_order # None
           /\ ~(pending /\ appended)
           /\ pc = "stopped before saves" => pending /\ ~appended
           /\ pc \in {"stopped in first save", "stopped between saves",
                      "stopped in second save"} => ~pending /\ ~appended
           /\ pc = "stopped after saves" => ~pending /\ appended

C17_Witness ==
    /\ pc = "stopped after saves"
    /\ last.orders0 = <<OrderA1, OrderB2>>
    /\ last.completed_order = Some(OrderA1)
    /\ FileOrders(disk, INPUT_FILE) = <<OrderB2>>
    /\ FileOrders(disk, OUTPUT_FILE) = Append(last.output0, OrderA1)
    /\ last.output0 # <<>>

====
